---- MODULE Spec2Model ----
(***************************************************************************)
(* Model of the prompt-injection validator's scoring core:                 *)
(*   llm_defender/core/validators/validator.py  (PromptInjectionValidator) *)
(*   prompt_defender/prompt_injection/validator/validator.py  (main)       *)
(*                                                                         *)
(* Scores are Python/torch floats in the source.  The model computes with  *)
(* exact rationals <<numerator, denominator>> in lowest terms, so equality *)
(* of two rationals is equality of the tuples; floating-point rounding is  *)
(* not modelled.                                                           *)
(***************************************************************************)
EXTENDS Integers, Sequences, FiniteSets, TLC

VARIABLES
    scores,              \* self.scores: uid -> moving-average score
    alpha,               \* self.neuron_config.alpha
    step,                \* self.step
    last_updated_block,  \* self.last_updated_block
    hotkeys,             \* self.hotkeys
    metagraph,           \* self.metagraph: the roster's hotkeys, uid i at i+1
    snapshot,            \* the file base_path/state.pt
    call,                \* the last operation, its inputs and what it did
    processed,           \* responses handed to process_responses so far
    calc,                \* one call of calculate_score: inputs and result
    main_step            \* main's local variable step

vars == <<scores, alpha, step, last_updated_block, hotkeys, metagraph,
          snapshot, call, processed, calc, main_step>>

----------------------------------------------------------------------------
(* Bounds of the model *)

\* longest list of engines in one response
MaxEngLen == 4
\* most keys of the output dict besides "engines"
MaxExtraKeys == 3
\* most responses processed (score updates attempted) in one behaviour
MaxUpdates == 2
\* largest roster (number of uids in the metagraph)
MaxMiners == 2
\* largest value of the step counter and of last_updated_block at start-up
MaxStep == 1

----------------------------------------------------------------------------
(* Exact rational arithmetic standing in for Python floats *)

Abs(n) == IF n < 0 THEN -n ELSE n

RECURSIVE GCD(_, _)
GCD(a, b) == IF b = 0 THEN a ELSE GCD(b, a % b)

\* n/d in lowest terms, d > 0
Rat(n, d) == LET g == GCD(Abs(n), d) IN <<n \div g, d \div g>>

Zero == Rat(0, 1)
One == Rat(1, 1)

RAdd(a, b) == Rat(a[1] * b[2] + b[1] * a[2], a[2] * b[2])
RNeg(a) == <<-a[1], a[2]>>
RSub(a, b) == RAdd(a, RNeg(b))
RMul(a, b) == Rat(a[1] * b[1], a[2] * b[2])
\* a / k for an integer k > 0
RDivInt(a, k) == Rat(a[1], a[2] * k)
RAbs(a) == <<Abs(a[1]), a[2]>>
RLeq(a, b) == a[1] * b[2] <= b[1] * a[2]
RLt(a, b) == a[1] * b[2] < b[1] * a[2]
\* Python's  0.0 <= x <= 1.0
InUnit(x) == RLeq(Zero, x) /\ RLeq(x, One)

RECURSIVE RSum(_)
RSum(s) == IF s = <<>> THEN Zero ELSE RAdd(Head(s), RSum(Tail(s)))

SeqsUpTo(S, n) == UNION {[1..k -> S] : k \in 0..n}

----------------------------------------------------------------------------
(* PromptInjectionValidator.__init__ *)

max_engines == 3
timeout == 12

(* calculate_score: the weights of the blend *)
distance_weight == Rat(7, 10)
speed_weight == Rat(2, 10)
num_engines_weight == Rat(1, 10)

\* len(response): response is the output dict, which has the key "engines"
\* and `extra` further keys
DictLen(response) == 1 + response.extra

\* distance_score, lines 204-210
DistanceScore(response, target) ==
    LET distances == [k \in 1..Len(response.engines) |->
                        RAbs(RSub(target, response.engines[k]))]
    IN  IF Len(distances) > 0
        THEN RSub(One, RDivInt(RSum(distances), Len(distances)))
        ELSE One

\* speed_score computed without the clamp of lines 216-220
SpeedScoreUnclamped(response_time) == RSub(One, Rat(response_time, timeout))

\* speed_score, lines 216-222
SpeedScore(response_time) ==
    LET clamped == IF response_time > timeout THEN timeout ELSE response_time
    IN  RSub(One, Rat(clamped, timeout))

\* engine_score, line 225
EngineScore(response) == Rat(DictLen(response), max_engines)

\* the blend with speed_weight 0.4, so that the weights sum to 1.2
BlendOverweight(distance_score, speed_score, engine_score) ==
    RAdd(RAdd(RMul(distance_weight, distance_score),
              RMul(Rat(4, 10), speed_score)),
         RMul(num_engines_weight, engine_score))

\* score, lines 248-252
Blend(distance_score, speed_score, engine_score) ==
    RAdd(RAdd(RMul(distance_weight, distance_score),
              RMul(speed_weight, speed_score)),
         RMul(num_engines_weight, engine_score))

\* calculate_score without the check of the individual scores (lines 228-237)
calculate_score_unchecked(response, target, response_time) ==
    LET distance_score == DistanceScore(response, target)
        speed_score == SpeedScore(response_time)
        engine_score == EngineScore(response)
        score == Blend(distance_score, speed_score, engine_score)
        sub == [distance_score |-> distance_score,
                speed_score |-> speed_score,
                engine_score |-> engine_score]
    IN  IF RLt(One, score) \/ RLt(score, Zero)
        THEN [sub |-> sub, score |-> Zero, branch |-> "final_out_of_bounds"]
        ELSE [sub |-> sub, score |-> score, branch |-> "return_score"]

\* calculate_score, lines 193-261.  `branch` names the return statement taken.
calculate_score(response, target, response_time) ==
    LET distance_score == DistanceScore(response, target)
        speed_score == SpeedScore(response_time)
        engine_score == EngineScore(response)
        score == Blend(distance_score, speed_score, engine_score)
        sub == [distance_score |-> distance_score,
                speed_score |-> speed_score,
                engine_score |-> engine_score]
    IN  IF ~InUnit(distance_score) \/ ~InUnit(speed_score) \/ ~InUnit(engine_score)
        THEN [sub |-> sub, score |-> Zero, branch |-> "individual_out_of_bounds"]
        ELSE IF RLt(One, score) \/ RLt(score, Zero)
        THEN [sub |-> sub, score |-> Zero, branch |-> "final_out_of_bounds"]
        ELSE [sub |-> sub, score |-> score, branch |-> "return_score"]

----------------------------------------------------------------------------
(* Inputs of calculate_score *)

Confidences == {Rat(0, 1), Rat(9, 10), Rat(1, 1), Rat(2, 1)}
Targets == {Zero, One}
ResponseTimes == {-3, 0, 2, 6, 12, 20}
Outputs == [engines : SeqsUpTo(Confidences, MaxEngLen), extra : 0..MaxExtraKeys]

NoOutput == [engines |-> <<>>, extra |-> 0]
NoResult == [sub |-> [distance_score |-> Zero, speed_score |-> Zero,
                      engine_score |-> Zero],
             score |-> Zero, branch |-> "none"]
NoFile == [exists |-> FALSE, step |-> 0, scores |-> <<>>, hotkeys |-> <<>>,
           last_updated_block |-> 0]
NoFields == [scores |-> <<>>, step |-> 0, hotkeys |-> <<>>,
             last_updated_block |-> 0]
NoCall == [op |-> "none", prev_op |-> "none", before |-> NoFields,
           had_file |-> FALSE, processed_uids |-> <<>>, responses |-> <<>>,
           target |-> Zero, raised |-> FALSE, log |-> <<>>, skipped |-> FALSE]
IdleCalc == [pc |-> "idle", response |-> NoOutput, target |-> Zero,
             response_time |-> 0, result |-> NoResult]

\* zeros_like(metagraph.S): one 0.0 per uid, uids 0..n-1
ZerosLike(mg) == [u \in 0..(Len(mg) - 1) |-> Zero]
Roster(n) == [i \in 1..n |-> i]

----------------------------------------------------------------------------
(* Specification of calculate_score alone: every input, then the call *)

InitCalc ==
    /\ calc \in {[pc |-> "call", response |-> r, target |-> t,
                  response_time |-> rt, result |-> NoResult] :
                    r \in Outputs, t \in Targets, rt \in ResponseTimes}
    /\ alpha = Rat(9, 10)
    /\ metagraph = Roster(1)
    /\ hotkeys = Roster(1)
    /\ scores = ZerosLike(Roster(1))
    /\ step = 0
    /\ last_updated_block = 0
    /\ snapshot = NoFile
    /\ call = NoCall
    /\ processed = 0
    /\ main_step = 0

CalculateScore ==
    /\ calc.pc = "call"
    /\ calc' = [calc EXCEPT !.pc = "return",
                            !.result = calculate_score(calc.response, calc.target,
                                                       calc.response_time)]
    /\ UNCHANGED <<scores, alpha, step, last_updated_block, hotkeys, metagraph,
                   snapshot, call, processed, main_step>>

NextCalc == CalculateScore
SpecCalc == InitCalc /\ [][NextCalc]_vars



----------------------------------------------------------------------------
(* process_responses *)

\* A response of the batch: a synapse with an output dict, a synapse with no
\* output, or (from main's dendrite.query only) None in place of a synapse.
Synapse(output, process_time) ==
    [none |-> FALSE, has_output |-> TRUE, output |-> output,
     process_time |-> process_time]
EmptySynapse ==
    [none |-> FALSE, has_output |-> FALSE, output |-> NoOutput, process_time |-> 0]
NoneItem ==
    [none |-> TRUE, has_output |-> FALSE, output |-> NoOutput, process_time |-> 0]

\* target, lines 150-154
Target(query) == IF query.isPromptInjection THEN One ELSE Zero

\* the update with the weight (1 - alpha) left off the round's score
MovingAverageUnweighted(a, old_score, response_score) ==
    RAdd(RMul(a, old_score), response_score)

\* the update with the two weights exchanged
MovingAverageSwapped(a, old_score, response_score) ==
    RAdd(RMul(RSub(One, a), old_score), RMul(a, response_score))

\* alpha * old + (1 - alpha) * response_score, lines 168-171 and 185-188
MovingAverage(a, old_score, response_score) ==
    RAdd(RMul(a, old_score), RMul(RSub(One, a), response_score))

\* what lines 173 and 191 log for one response: the uid, its score before
\* and after the store, whether calculate_score was invoked, and its result
Logged(uid, old_score, new_score, scored, response_score) ==
    [uid |-> uid, old_score |-> old_score, new_score |-> new_score,
     scored |-> scored, response_score |-> response_score]

\* the iteration with `continue` taken for an empty response before the store
IterationSkipEmpty(st, i, processed_uids, responses, target, a) ==
    LET response == responses[i]
        uid == processed_uids[i]
        old_score == st.scores[uid]
        response_score == calculate_score(response.output, target,
                                          response.process_time).score
        new_score == MovingAverage(a, old_score, response_score)
    IN  IF st.raised THEN st
        ELSE IF ~response.has_output
        THEN [st EXCEPT !.log = Append(@, Logged(uid, old_score, old_score,
                                                 FALSE, Zero))]
        ELSE [st EXCEPT !.scores[uid] = new_score,
                        !.log = Append(@, Logged(uid, old_score, new_score,
                                                 TRUE, response_score))]

\* the iteration with the update applied to the whole tensor self.scores
IterationBroadcast(st, i, processed_uids, responses, target, a) ==
    LET response == responses[i]
        uid == processed_uids[i]
        old_score == st.scores[uid]
        response_score ==
            IF response.has_output
            THEN calculate_score(response.output, target,
                                 response.process_time).score
            ELSE Zero
        new_score == MovingAverage(a, old_score, response_score)
    IN  IF st.raised THEN st
        ELSE [st EXCEPT !.scores = [u \in DOMAIN st.scores |->
                                      MovingAverage(a, st.scores[u], response_score)],
                        !.log = Append(@, Logged(uid, old_score, new_score,
                                                 response.has_output,
                                                 response_score))]

\* One iteration of the loop at lines 158-191, on responses[i].  st.raised:
\* an exception has left the handler; st.log: what has been logged so far.
Iteration(st, i, processed_uids, responses, target, a) ==
    LET response == responses[i]
        uid == processed_uids[i]
        old_score == st.scores[uid]
    IN  IF st.raised THEN st
        ELSE IF response.none
        THEN \* response.output on None raises AttributeError
             [st EXCEPT !.raised = TRUE]
        ELSE IF ~response.has_output
        THEN LET new_score == MovingAverage(a, old_score, Zero)
             IN  [st EXCEPT !.scores[uid] = new_score,
                            !.log = Append(@, Logged(uid, old_score, new_score,
                                                     FALSE, Zero))]
        ELSE LET response_score ==
                    calculate_score(response.output, target,
                                    response.process_time).score
                 new_score == MovingAverage(a, old_score, response_score)
             IN  [st EXCEPT !.scores[uid] = new_score,
                            !.log = Append(@, Logged(uid, old_score, new_score,
                                                     TRUE, response_score))]

\* the loop of lines 158-191 from position i through position last
RECURSIVE Loop(_, _, _, _, _, _, _)
Loop(st, i, last, processed_uids, responses, target, a) ==
    IF i > last THEN st
    ELSE Loop(Iteration(st, i, processed_uids, responses, target, a),
              i + 1, last, processed_uids, responses, target, a)

\* process_responses, lines 141-191
process_responses(sc, processed_uids, query, responses, a) ==
    Loop([scores |-> sc, log |-> <<>>, raised |-> FALSE],
         1, Len(responses), processed_uids, responses, Target(query), a)

----------------------------------------------------------------------------
(* Specification of the aggregator: rounds of process_responses *)

\* 0.9 is the default of --alpha
Alphas == {Rat(0, 1), Rat(9, 10), Rat(1, 1)}

\* What a round draws its responses from: no output; one engine sure of an
\* injection, three keys in the output dict, half the timeout; a confidence
\* of 2 (distance_score is -1 when the target is 0.0); and a negative
\* process_time (speed_score is above 1).
RoundResponses ==
    {EmptySynapse,
     Synapse([engines |-> <<One>>, extra |-> 2], 6),
     Synapse([engines |-> <<Rat(2, 1)>>, extra |-> 0], 0),
     Synapse([engines |-> <<One>>, extra |-> 2], -3)}

\* every batch of n responses for uids of the roster
Batches(n) ==
    [processed_uids : [1..n -> DOMAIN scores],
     responses : [1..n -> RoundResponses],
     isPromptInjection : BOOLEAN]

Fields == [scores |-> scores, step |-> step, hotkeys |-> hotkeys,
           last_updated_block |-> last_updated_block]

Init ==
    /\ alpha \in Alphas
    /\ metagraph = Roster(MaxMiners)
    /\ hotkeys = metagraph
    /\ scores = ZerosLike(metagraph)
    /\ step = 0
    /\ last_updated_block = 0
    /\ snapshot = NoFile
    /\ call = NoCall
    /\ processed = 0
    /\ calc = IdleCalc
    /\ main_step = 0

\* a call of process_responses with the batch b
ProcessBatch(b) ==
    /\ processed + Len(b.responses) <= MaxUpdates
    /\ \E r \in {process_responses(scores, b.processed_uids,
                                   [isPromptInjection |-> b.isPromptInjection],
                                   b.responses, alpha)} :
         /\ scores' = r.scores
         /\ call' = [NoCall EXCEPT
                        !.op = "process_responses",
                        !.prev_op = call.op,
                        !.before = Fields,
                        !.processed_uids = b.processed_uids,
                        !.responses = b.responses,
                        !.target = Target([isPromptInjection |-> b.isPromptInjection]),
                        !.raised = r.raised,
                        !.log = r.log]
    /\ processed' = processed + Len(b.responses)
    /\ UNCHANGED <<alpha, step, last_updated_block, hotkeys, metagraph,
                   snapshot, calc, main_step>>

ProcessResponses ==
    \E n \in 0..(MaxUpdates - processed) : \E b \in Batches(n) : ProcessBatch(b)

Next == ProcessResponses
Spec == Init /\ [][Next]_vars

----------------------------------------------------------------------------
(* save_state and load_state *)

\* torch.save of a dict that leaves last_updated_block out
SavedStateWithoutBlock ==
    [exists |-> TRUE, step |-> step, scores |-> scores, hotkeys |-> hotkeys,
     last_updated_block |-> 0]

\* the dict handed to torch.save, lines 297-305
SavedState ==
    [exists |-> TRUE, step |-> step, scores |-> scores, hotkeys |-> hotkeys,
     last_updated_block |-> last_updated_block]

\* save_state, lines 292-307
save_state ==
    /\ snapshot' = SavedState
    /\ call' = [NoCall EXCEPT !.op = "save_state", !.prev_op = call.op,
                              !.before = Fields, !.had_file = snapshot.exists]
    /\ UNCHANGED <<scores, alpha, step, last_updated_block, hotkeys, metagraph,
                   processed, calc, main_step>>

\* load_state, lines 309-328
load_state ==
    /\ IF snapshot.exists
       THEN /\ step' = snapshot.step
            /\ scores' = snapshot.scores
            /\ hotkeys' = snapshot.hotkeys
            /\ last_updated_block' = snapshot.last_updated_block
       ELSE /\ scores' = ZerosLike(metagraph)
            /\ UNCHANGED <<step, hotkeys, last_updated_block>>
    /\ call' = [NoCall EXCEPT !.op = "load_state", !.prev_op = call.op,
                              !.before = Fields, !.had_file = snapshot.exists]
    /\ UNCHANGED <<alpha, metagraph, snapshot, processed, calc, main_step>>

\* the rounds between saves and loads: one response a call
PersistRound == \E b \in Batches(1) : ProcessBatch(b)

\* initialize_neuron, lines 132-137, without --load_state: zeros, one per uid
\* of the metagraph.  step and last_updated_block are set by BaseNeuron and the
\* round loop; any value up to MaxStep stands for them.
InitPersist ==
    /\ alpha = Rat(9, 10)
    /\ metagraph \in {Roster(n) : n \in 1..MaxMiners}
    /\ hotkeys = metagraph
    /\ scores = ZerosLike(metagraph)
    /\ step \in 0..MaxStep
    /\ last_updated_block \in 0..MaxStep
    /\ snapshot = NoFile
    /\ call = NoCall
    /\ processed = 0
    /\ calc = IdleCalc
    /\ main_step = 0

NextPersist == PersistRound \/ save_state \/ load_state
SpecPersist == InitPersist /\ [][NextPersist]_vars

----------------------------------------------------------------------------
(* main: one iteration of the validation loop, lines 23-89 *)

\* what dendrite.query returns for one axon
MainResponses == RoundResponses \cup {NoneItem}

\* Lines 25-75.  The call at line 49 hands over the query and the responses
\* only; the responses are positional over metagraph.axons, so the response at
\* position i is taken to belong to uid i - 1.  When every item is None the
\* iteration ends at the `continue` of line 44; an exception raised by
\* process_responses is caught at line 87, which skips lines 51-75.  The
\* weights of lines 52-68 are derived from scores and sent to the chain; they
\* change nothing here.  The metagraph read again at line 73 holds the same
\* roster.
main ==
    \E b \in [processed_uids : {[i \in 1..Len(metagraph) |-> i - 1]},
             responses : [1..Len(metagraph) -> MainResponses],
             isPromptInjection : BOOLEAN] :
      /\ IF \A i \in 1..Len(b.responses) : b.responses[i].none
         THEN /\ call' = [NoCall EXCEPT
                            !.op = "main", !.prev_op = call.op,
                            !.before = Fields,
                            !.processed_uids = b.processed_uids,
                            !.responses = b.responses,
                            !.target = Target([isPromptInjection |->
                                                 b.isPromptInjection]),
                            !.skipped = TRUE]
              /\ UNCHANGED <<scores, processed, main_step>>
         ELSE /\ processed + Len(b.responses) <= MaxUpdates
              /\ \E r \in {process_responses(scores, b.processed_uids,
                              [isPromptInjection |-> b.isPromptInjection],
                              b.responses, alpha)} :
                   /\ scores' = r.scores
                   /\ call' = [NoCall EXCEPT
                                 !.op = "main", !.prev_op = call.op,
                                 !.before = Fields,
                                 !.processed_uids = b.processed_uids,
                                 !.responses = b.responses,
                                 !.target = Target([isPromptInjection |->
                                                      b.isPromptInjection]),
                                 !.raised = r.raised,
                                 !.log = r.log]
                   /\ main_step' = IF r.raised THEN main_step ELSE main_step + 1
              /\ processed' = processed + Len(b.responses)
      /\ UNCHANGED <<alpha, step, last_updated_block, hotkeys, metagraph,
                     snapshot, calc>>

InitMain ==
    /\ alpha \in Alphas
    /\ metagraph \in {Roster(n) : n \in 1..MaxMiners}
    /\ hotkeys = metagraph
    /\ scores = ZerosLike(metagraph)
    /\ step = 0
    /\ last_updated_block = 0
    /\ snapshot = NoFile
    /\ call = NoCall
    /\ processed = 0
    /\ calc = IdleCalc
    /\ main_step = 0

NextMain == main
SpecMain == InitMain /\ [][NextMain]_vars

----------------------------------------------------------------------------
(* Properties of calculate_score, checked under SpecCalc *)

Returned == calc.pc = "return"
Sub == calc.result.sub

\* C2: engine_score is the number of engines in response["engines"] divided
\* by max_engines, and a response with more engines than max_engines scores
\* exactly 0.0.
C2_EngineScoreCountsEngines ==
    Returned =>
        /\ Sub.engine_score = Rat(Len(calc.response.engines), max_engines)
        /\ Len(calc.response.engines) > max_engines => calc.result.score = Zero

\* C7: when the three individual scores are each within [0, 1], the blend
\* 0.7 * distance + 0.2 * speed + 0.1 * engine is within [0, 1] and is what
\* calculate_score returns; the final out-of-bounds return is never taken.
C7_BlendStaysInUnit ==
    Returned =>
        /\ calc.result.branch # "final_out_of_bounds"
        /\ (InUnit(Sub.distance_score) /\ InUnit(Sub.speed_score)
              /\ InUnit(Sub.engine_score))
           => /\ calc.result.branch = "return_score"
              /\ InUnit(calc.result.score)
              /\ calc.result.score =
                   RAdd(RAdd(RMul(Rat(7, 10), Sub.distance_score),
                             RMul(Rat(2, 10), Sub.speed_score)),
                        RMul(Rat(1, 10), Sub.engine_score))

\* C7 witness: all three individual scores are 1.0 and the blend returned is 1.0
C7_Witness ==
    /\ Returned
    /\ Sub.distance_score = One /\ Sub.speed_score = One /\ Sub.engine_score = One
    /\ calc.result.branch = "return_score"
    /\ calc.result.score = One

\* C8: a response_time at or above timeout gives speed_score exactly 0.0,
\* however large it is, and a response_time of 0 gives exactly 1.0.
C8_SpeedClamped ==
    Returned =>
        /\ calc.response_time >= timeout => Sub.speed_score = Zero
        /\ calc.response_time = 0 => Sub.speed_score = One

\* C8 witness: response_time 20 with timeout 12 has speed_score 0.0
C8_Witness ==
    /\ Returned
    /\ calc.response_time = 20 /\ timeout = 12
    /\ Sub.speed_score = Zero

----------------------------------------------------------------------------
(* Properties of process_responses, checked under Spec *)

Handled == call.op = "process_responses"
Count == Len(call.responses)
Uid(i) == call.processed_uids[i]
\* what the last call logged for the response at position i
Log(i) == call.log[i]
Stored(i) == i <= Len(call.log) /\ Log(i).uid = Uid(i)

\* what calculate_score returns for the response at position i
Scored(i) ==
    calculate_score(call.responses[i].output, call.target,
                    call.responses[i].process_time)

\* an individual score of the response at position i is outside [0, 1]
OutOfBounds(i) ==
    \/ ~InUnit(Scored(i).sub.distance_score)
    \/ ~InUnit(Scored(i).sub.speed_score)
    \/ ~InUnit(Scored(i).sub.engine_score)

\* the score of the uid at position i when the iteration at i begins: what the
\* last earlier position of that uid stored, or the score before the call
ScoreBefore(i) ==
    LET earlier == {j \in 1..(i - 1) : Uid(j) = Uid(i)}
    IN  IF earlier = {} THEN call.before.scores[Uid(i)]
        ELSE Log(CHOOSE j \in earlier : \A k \in earlier : k <= j).new_score

\* the score of uid u when the call returns
ScoreAfter(u) ==
    LET positions == {j \in 1..Count : Uid(j) = u}
    IN  IF positions = {} THEN call.before.scores[u]
        ELSE Log(CHOOSE j \in positions : \A k \in positions : k <= j).new_score

OnlyPositionOf(i) == \A j \in 1..Count : Uid(j) = Uid(i) => j = i
DistinctUids == \A i \in 1..Count : OnlyPositionOf(i)

\* C1: from zero scores and alpha in [0, 1], every score is within [0, 1]
\* after any sequence of rounds.
C1_ScoresInUnit == \A u \in DOMAIN scores : InUnit(scores[u])

\* C1 witness: a second round, holding a response with an individual score out
\* of bounds, has left some score strictly between 0 and 1
C1_Witness ==
    /\ Handled /\ call.prev_op = "process_responses"
    /\ \E i \in 1..Count : call.responses[i].has_output /\ OutOfBounds(i)
    /\ \E u \in DOMAIN scores : RLt(Zero, scores[u]) /\ RLt(scores[u], One)

\* C3: for a response with no output calculate_score is not invoked and the
\* score stored is alpha * old_score, whatever else is in the batch; with
\* old_score 0.5 and alpha 0.9 that is 0.45.
C3_EmptyResponseDecays ==
    /\ MovingAverage(Rat(9, 10), Rat(1, 2), Zero) = Rat(45, 100)
    /\ Handled =>
         \A i \in 1..Count :
            ~call.responses[i].has_output =>
               /\ Stored(i)
               /\ ~Log(i).scored
               /\ Log(i).old_score = ScoreBefore(i)
               /\ Log(i).new_score = RMul(alpha, Log(i).old_score)
               /\ OnlyPositionOf(i) =>
                     scores[Uid(i)] = RMul(alpha, call.before.scores[Uid(i)])

\* C3 witness: a response with no output met a score above 0 and left
\* alpha times that score
C3_Witness ==
    /\ Handled
    /\ \E i \in 1..Count :
          /\ ~call.responses[i].has_output
          /\ Stored(i)
          /\ RLt(Zero, Log(i).old_score)
          /\ RLt(Zero, Log(i).new_score)
          /\ Log(i).new_score = RMul(alpha, Log(i).old_score)
          /\ scores[Uid(i)] = Log(i).new_score

\* C4: when an individual score is outside [0, 1], calculate_score returns 0.0
\* and raises nothing, the moving average is still stored for that uid, and the
\* responses after it are processed too.
C4_OutOfBoundsScoresZero ==
    Handled =>
       \A i \in 1..Count :
          (call.responses[i].has_output /\ OutOfBounds(i)) =>
             /\ Scored(i).score = Zero
             /\ Scored(i).branch = "individual_out_of_bounds"
             /\ ~call.raised
             /\ Stored(i)
             /\ Log(i).scored /\ Log(i).response_score = Zero
             /\ Log(i).old_score = ScoreBefore(i)
             /\ Log(i).new_score = RMul(alpha, Log(i).old_score)
             /\ \A j \in (i + 1)..Count : Stored(j)
             /\ \A u \in DOMAIN scores : scores[u] = ScoreAfter(u)

\* C4 witness: the first response of a batch has an individual score out of
\* bounds, and the response after it changed its uid's score
C4_Witness ==
    /\ Handled /\ Count >= 2
    /\ call.responses[1].has_output /\ OutOfBounds(1)
    /\ call.responses[2].has_output /\ ~OutOfBounds(2)
    /\ Uid(2) # Uid(1)
    /\ scores[Uid(2)] # call.before.scores[Uid(2)]

\* C5: for a response with output the score stored is
\* alpha * old_score + (1 - alpha) * round_score; with alpha = 1.0 no score
\* changes, and with alpha = 0.0 the score stored is the round's score.
C5_MovingAverageUpdate ==
    Handled =>
       /\ \A i \in 1..Count :
             call.responses[i].has_output =>
                /\ Stored(i)
                /\ Log(i).scored /\ Log(i).response_score = Scored(i).score
                /\ Log(i).old_score = ScoreBefore(i)
                /\ Log(i).new_score =
                      RAdd(RMul(alpha, Log(i).old_score),
                           RMul(RSub(One, alpha), Log(i).response_score))
                /\ alpha = Zero => Log(i).new_score = Scored(i).score
                /\ OnlyPositionOf(i) =>
                      scores[Uid(i)] =
                         RAdd(RMul(alpha, call.before.scores[Uid(i)]),
                              RMul(RSub(One, alpha), Scored(i).score))
       /\ alpha = One => scores = call.before.scores
       /\ \A u \in DOMAIN scores : scores[u] = ScoreAfter(u)

\* C5 witness: with alpha = 0.0 a score above 0 was replaced by a different
\* round score
C5_Witness ==
    /\ Handled /\ alpha = Zero
    /\ \E i \in 1..Count :
          /\ call.responses[i].has_output
          /\ OnlyPositionOf(i)
          /\ RLt(Zero, call.before.scores[Uid(i)])
          /\ scores[Uid(i)] = Scored(i).score
          /\ scores[Uid(i)] # call.before.scores[Uid(i)]

\* the batch of the last call with its positions rearranged by p
Rearranged(p) ==
    process_responses(call.before.scores,
                      [i \in 1..Count |-> call.processed_uids[p[i]]],
                      [isPromptInjection |-> call.target = One],
                      [i \in 1..Count |-> call.responses[p[i]]],
                      alpha).scores

\* the last call's response at position i processed alone
Alone(i) ==
    process_responses(call.before.scores, <<Uid(i)>>,
                      [isPromptInjection |-> call.target = One],
                      <<call.responses[i]>>, alpha).scores

\* C6: when each uid appears at most once in the batch, a uid that is not in
\* the batch keeps its score, each uid's new score is what its response alone
\* would give, and every order of the batch gives the same scores.
C6_UpdatesIndependent ==
    (Handled /\ DistinctUids) =>
       /\ \A u \in DOMAIN scores :
             (\A i \in 1..Count : Uid(i) # u) => scores[u] = call.before.scores[u]
       /\ \A i \in 1..Count : scores[Uid(i)] = Alone(i)[Uid(i)]
       /\ \A p \in Permutations(1..Count) : Rearranged(p) = scores

\* C6 witness: a batch of two uids with different responses, each of which
\* changed its own uid's score
C6_Witness ==
    /\ Handled /\ DistinctUids /\ Count = 2
    /\ call.responses[1] # call.responses[2]
    /\ scores[Uid(1)] # call.before.scores[Uid(1)]
    /\ scores[Uid(2)] # call.before.scores[Uid(2)]
    /\ scores[Uid(1)] # scores[Uid(2)]

----------------------------------------------------------------------------
(* Property of main, checked under SpecMain *)

\* C9: in every iteration of the validation loop each uid of the batch has its
\* score stored exactly once, with round score 0.0 when its response is empty,
\* also when every response is empty.
C9_EveryUidUpdatedOncePerRound ==
    call.op = "main" =>
       \A i \in 1..Count :
          /\ Stored(i)
          /\ Cardinality({j \in 1..Len(call.log) : Log(j).uid = Uid(i)}) = 1
          /\ scores[Uid(i)] =
                MovingAverage(alpha, call.before.scores[Uid(i)],
                              IF call.responses[i].has_output
                              THEN Scored(i).score ELSE Zero)

----------------------------------------------------------------------------
(* Properties of save_state and load_state, checked under SpecPersist *)

\* C10: load_state right after save_state leaves scores, step, hotkeys and
\* last_updated_block as they were; load_state restores what the file holds;
\* and without a file it leaves one 0.0 per uid of the metagraph.
C10_SaveLoadRoundTrip ==
    call.op = "load_state" =>
       /\ call.prev_op = "save_state" => (call.had_file /\ Fields = call.before)
       /\ call.had_file =>
             /\ scores = snapshot.scores
             /\ step = snapshot.step
             /\ hotkeys = snapshot.hotkeys
             /\ last_updated_block = snapshot.last_updated_block
       /\ ~call.had_file =>
             /\ DOMAIN scores = 0..(Len(metagraph) - 1)
             /\ \A u \in DOMAIN scores : scores[u] = Zero

\* C10 witness: after rounds that raised a score above 0, with step and
\* last_updated_block above 0, save_state and then load_state ran and the four
\* fields are as before
C10_Witness ==
    /\ call.op = "load_state" /\ call.prev_op = "save_state"
    /\ processed > 0
    /\ \E u \in DOMAIN scores : RLt(Zero, scores[u])
    /\ step > 0 /\ last_updated_block > 0
    /\ Fields = call.before

====
